---- MODULE Spec2Model ----
(***************************************************************************)
(* A model of run_invest.py: one run of main() in one of its three modes,  *)
(* against a broker API whose answers (listings, quotes, order responses,  *)
(* holdings, failures) are the environment's choice.                       *)
(*                                                                         *)
(* Money in the script is a Python float.  A float is modelled by its      *)
(* exact value, a binary fraction [i |-> integer part, f |-> limbs of 15   *)
(* bits] (value i + SUM f[k] * 2^(-15k)), and every float operation is     *)
(* the exact operation followed by IEEE-754 binary64 rounding (53          *)
(* significant bits, round to nearest, ties to even).  A float that is the *)
(* result of round(x, 2), or a decimal literal of the configuration, is    *)
(* kept in the state as its number of hundredths ("cents"): the float is   *)
(* then FromCents(cents).                                                  *)
(***************************************************************************)
EXTENDS Integers, Sequences, FiniteSets, TLC

\* ------------------------------------------------------------ binary64

\* A fraction is a sequence of limbs of W = 15 bits, the most significant
\* first.
B == 2^15

\* The limbs without trailing zeros.
RECURSIVE Strip(_)
Strip(f) ==
    IF f = <<>> THEN f
    ELSE IF f[Len(f)] = 0 THEN Strip(SubSeq(f, 1, Len(f) - 1))
    ELSE f

Dy(i, f) == [i |-> i, f |-> Strip(f)]

\* The number of bits of n (0 for 0).
RECURSIVE BitLen(_)
BitLen(n) == IF n = 0 THEN 0 ELSE 1 + BitLen(n \div 2)

W == BitLen(B) - 1

\* The index of the first limb of f that is not zero (Len(f) + 1 when none).
RECURSIVE FirstLimb(_, _)
FirstLimb(f, k) ==
    IF k > Len(f) THEN k ELSE IF f[k] # 0 THEN k ELSE FirstLimb(f, k + 1)

\* f padded with zero limbs to n limbs.
Pad(f, n) == [k \in 1..n |-> IF k <= Len(f) THEN f[k] ELSE 0]

Longer(f, g) == IF Len(f) > Len(g) THEN Len(f) ELSE Len(g)

\* x <= y, on exact values.
RECURSIVE LeqLimbs(_, _, _)
LeqLimbs(f, g, k) ==
    IF k > Len(f) THEN TRUE
    ELSE IF f[k] < g[k] THEN TRUE
    ELSE IF f[k] > g[k] THEN FALSE
    ELSE LeqLimbs(f, g, k + 1)

Leq(x, y) ==
    LET n == Longer(x.f, y.f)
    IN  IF x.i # y.i THEN x.i < y.i ELSE LeqLimbs(Pad(x.f, n), Pad(y.f, n), 1)

\* f + g + carry on fractions of n limbs, from the last limb to the first:
\* <<carry out, limbs>>.
RECURSIVE AddLimbs(_, _, _, _, _)
AddLimbs(f, g, k, carry, acc) ==
    IF k = 0 THEN <<carry, acc>>
    ELSE LET t == f[k] + g[k] + carry
         IN  AddLimbs(f, g, k - 1, t \div B, <<t % B>> \o acc)

\* The exact sum x + y.
Add(x, y) ==
    LET n == Longer(x.f, y.f)
        s == AddLimbs(Pad(x.f, n), Pad(y.f, n), n, 0, <<>>)
    IN  Dy(x.i + y.i + s[1], s[2])

\* The exact difference 1 - a, for 0 <= a <= 1.
OneMinus(a) ==
    IF a.i = 1 THEN Dy(0, <<>>)
    ELSE IF Strip(a.f) = <<>> THEN Dy(1, <<>>)
    ELSE LET n == Len(a.f)
             inv == [k \in 1..n |-> B - 1 - a.f[k]]
             s == AddLimbs(inv, [k \in 1..n |-> IF k = n THEN 1 ELSE 0], n, 0, <<>>)
         IN  Dy(0, s[2])

\* x / B, exact.
ShiftLimb(x) == Dy(x.i \div B, <<x.i % B>> \o x.f)

\* The exact product n * 0.f of a natural n < 2^16 and a fraction, from the
\* last limb to the first: <<carry out, limbs>>.
RECURSIVE MulLimbs(_, _, _, _, _)
MulLimbs(f, n, k, carry, acc) ==
    IF k = 0 THEN <<carry, acc>>
    ELSE LET t == (f[k] * n) + carry
         IN  MulLimbs(f, n, k - 1, t \div B, <<t % B>> \o acc)

\* The exact product n * x, n < 2^16.
MulIntExact(x, n) ==
    LET m == MulLimbs(x.f, n, Len(x.f), 0, <<>>)
    IN  Dy((x.i * n) + m[1], m[2])

\* The exact product 0.f * y, from the last limb of f to the first.
RECURSIVE MulFrac(_, _, _, _)
MulFrac(f, y, k, acc) ==
    IF k = 0 THEN acc
    ELSE MulFrac(f, y, k - 1, ShiftLimb(Add(acc, MulIntExact(y, f[k]))))

\* The exact product x * y.
MulExact(x, y) ==
    Add(MulIntExact(y, x.i), MulFrac(x.f, y, Len(x.f), Dy(0, <<>>)))

\* 2^-p, p > 0.
Ulp(p) ==
    LET q == (p - 1) \div W
        r == ((p - 1) % W) + 1
    IN  Dy(0, [k \in 1..(q + 1) |-> IF k = q + 1 THEN 2^(W - r) ELSE 0])

\* binary64 rounding of an exact value: 53 significant bits, to nearest, ties
\* to even.  p is the number of fraction bits kept, q the whole limbs among
\* them, r the bits kept of limb q + 1.
RN(x) ==
    LET f == Strip(x.f)
        j == FirstLimb(f, 1)
        p == IF x.i > 0 THEN 53 - BitLen(x.i)
             ELSE IF f = <<>> THEN 53
             ELSE (W * (j - 1)) + (W - BitLen(f[j])) + 53
        q == p \div W
        r == p % W
    IN  IF W * Len(f) <= p THEN Dy(x.i, f)
        ELSE LET limb == f[q + 1]
                 dropped == limb % 2^(W - r)
                 kept == SubSeq(f, 1, q) \o <<limb - dropped>>
                 guard == dropped \div 2^(W - r - 1)
                 sticky == dropped % 2^(W - r - 1) # 0 \/ Len(f) > q + 1
                 lsb == IF p = 0 THEN x.i % 2
                        ELSE IF r > 0 THEN (limb \div 2^(W - r)) % 2
                        ELSE f[q] % 2
             IN  IF guard = 1 /\ (sticky \/ lsb = 1)
                 THEN Add(Dy(x.i, kept), IF p = 0 THEN Dy(1, <<>>) ELSE Ulp(p))
                 ELSE Dy(x.i, kept)

\* One limb of long division by d < 2^30, bit by bit: <<quotient limb,
\* remainder>> of (r * B + limb) / d, for r < d.
RECURSIVE DivLimb(_, _, _, _, _)
DivLimb(r, d, limb, k, q) ==
    IF k = 0 THEN <<q, r>>
    ELSE LET t == (2 * r) + ((limb \div 2^(k - 1)) % 2)
         IN  DivLimb(t % d, d, limb, k - 1, (2 * q) + (t \div d))

\* The quotient limbs of (r + 0.rest) / d after the binary point: `need`
\* counts the limbs still wanted after the first that is not zero, and a last
\* limb of 1 stands for a remainder that is not zero.
RECURSIVE DivLimbs(_, _, _, _, _)
DivLimbs(r, d, rest, need, started) ==
    IF need = 0 THEN (IF r > 0 \/ Strip(rest) # <<>> THEN <<1>> ELSE <<>>)
    ELSE IF r = 0 /\ Strip(rest) = <<>> THEN <<>>
    ELSE LET s == DivLimb(r, d, IF rest = <<>> THEN 0 ELSE Head(rest), W, 0)
             st == started \/ s[1] # 0
         IN  <<s[1]>> \o DivLimbs(s[2], d, IF rest = <<>> THEN rest ELSE Tail(rest),
                                  IF st THEN need - 1 ELSE need, st)

\* The float x / d for a natural d < 2^30: the exact quotient to more than 55
\* significant bits, rounded.
DivInt(x, d) ==
    RN(Dy(x.i \div d, DivLimbs(x.i % d, d, x.f, 5, x.i \div d > 0)))

\* The float n / d of two naturals (Python's true division).
FromRatio(n, d) == DivInt(Dy(n, <<>>), d)

\* The float of a decimal with two fractional digits, given in hundredths.
FromCents(c) == FromRatio(c, 100)

\* The float product x * y.
Mul(x, y) == RN(MulExact(x, y))

\* round(x, 2) in hundredths: Python rounds the exact value of the float,
\* ties to even.
RoundCents(x) ==
    LET y == MulIntExact(x, 100)
    IN  IF y.f = <<>> THEN y.i
        ELSE IF y.f[1] > B \div 2 THEN y.i + 1
        ELSE IF y.f[1] = B \div 2 /\ (Len(y.f) > 1 \/ y.i % 2 = 1) THEN y.i + 1
        ELSE y.i

\* x // y for floats x >= 0, y > 0: the floor of the exact quotient, found
\* between lo (lo * y <= x) and hi (hi * y > x).
RECURSIVE Bisect(_, _, _, _)
Bisect(x, y, lo, hi) ==
    IF hi - lo <= 1 THEN lo
    ELSE LET mid == (lo + hi) \div 2
         IN  IF Leq(MulIntExact(y, mid), x) THEN Bisect(x, y, mid, hi)
             ELSE Bisect(x, y, lo, mid)

RECURSIVE Above(_, _, _)
Above(x, y, hi) == IF Leq(MulIntExact(y, hi), x) THEN Above(x, y, 2 * hi) ELSE hi

FloorDiv(x, y) == Bisect(x, y, 0, Above(x, y, 1))

\* int(x * 1e9) for a float 0 <= x < 1: 1e9 = 31250 * 32000, the product is
\* rounded once and truncated.
Nano(x) == RN(MulIntExact(MulIntExact(x, 31250), 32000)).i

\* ------------------------------------------------------ the script's data

\* Python's None; a value v that may be None is kept as <<v>>.
None == <<>>

DEFAULT_DISCOUNT == 3

\* range(5) of the confirmation loop.
PollAttempts == 5

\* The number of entries of SHARES, and of open orders the account may hold.
NumEntries == 4
MaxOpenOrders == 3

\* The allocation table: amount in hundredths, "discount" and "discount_price"
\* None when the entry has no such key.
ShareTable ==
    << [ticker |-> "AAA", amount |-> 300000, discount |-> <<5>>, discount_price |-> None],
       [ticker |-> "BBB", amount |-> 10000, discount |-> <<5>>, discount_price |-> <<817>>],
       [ticker |-> "ZZZ", amount |-> 300000, discount |-> <<5>>, discount_price |-> None],
       [ticker |-> "CCC", amount |-> 300000, discount |-> None, discount_price |-> None],
       [ticker |-> "DDD", amount |-> 300000, discount |-> <<10>>, discount_price |-> <<18000>>],
       [ticker |-> "EEE", amount |-> 50000, discount |-> None, discount_price |-> None] >>

SHARES == SubSeq(ShareTable, 1, NumEntries)

\* The broker's listings, as client.instruments.shares(), etfs() and bonds()
\* return them.  AAA is listed in all three classes (twice as a share), BBB as
\* a fund and a bond, ZZZ nowhere.
SharesListing ==
    << [ticker |-> "DDD", figi |-> "S_DDD", lot |-> 1],
       [ticker |-> "AAA", figi |-> "S_AAA", lot |-> 10],
       [ticker |-> "AAA", figi |-> "S_AAA_2", lot |-> 3] >>

EtfsListing ==
    << [ticker |-> "AAA", figi |-> "E_AAA", lot |-> 100],
       [ticker |-> "BBB", figi |-> "E_BBB", lot |-> 1],
       [ticker |-> "EEE", figi |-> "E_EEE", lot |-> 100] >>

BondsListing ==
    << [ticker |-> "BBB", figi |-> "B_BBB", lot |-> 5, nominal |-> <<1000, 0>>],
       [ticker |-> "CCC", figi |-> "B_CCC", lot |-> 1, nominal |-> <<1000, 0>>],
       [ticker |-> "AAA", figi |-> "B_AAA", lot |-> 1, nominal |-> <<500, 0>>] >>

\* (changed: the bonds searched first)
MethodsBondsFirst == <<BondsListing, EtfsListing, SharesListing>>

\* [client.instruments.shares, client.instruments.etfs, client.instruments.bonds]
Methods == <<SharesListing, EtfsListing, BondsListing>>

\* The MoneyValue (units, nano) answers the broker may give: the last price of
\* an order book, the executed price of an order response, the average price
\* of a position.
LastPrices == { <<0, 0>>, <<8, 600000000>>, <<95, 500000000>>, <<4000, 0>> }
ExecutedPrices == { None, <<8, 610000000>> }
AveragePrices == { None, <<0, 4000000>>, <<8, 620000000>> }

\* The holdings get_portfolio may return: no position, or positions of the
\* listed instruments with or without an average price.
Figis == {"S_AAA", "E_BBB", "B_CCC"}
Position == [figi : Figis, average_position_price : AveragePrices]
Portfolios ==
    {<<>>} \cup {<<p>> : p \in Position}
           \cup {<<p, q>> : p \in {x \in Position : x.average_position_price = <<0, 4000000>>},
                            q \in {x \in Position : x.average_position_price = <<8, 620000000>>}}

\* ------------------------------------------------- the script's functions

\* round(money.units + money.nano / 1e9, 2), in hundredths.
money_value_to_float(money) ==
    RoundCents(RN(Add(Dy(money[1], <<>>), FromRatio(money[2], 1000000000))))

\* next((instr for instr in instruments if instr.ticker == ticker), None)
RECURSIVE NextByTicker(_, _, _)
NextByTicker(instruments, ticker, k) ==
    IF k > Len(instruments) THEN None
    ELSE IF instruments[k].ticker = ticker THEN <<instruments[k]>>
    ELSE NextByTicker(instruments, ticker, k + 1)

RECURSIVE NextByFigi(_, _, _)
NextByFigi(instruments, figi, k) ==
    IF k > Len(instruments) THEN None
    ELSE IF instruments[k].figi = figi THEN <<instruments[k]>>
    ELSE NextByFigi(instruments, figi, k + 1)

\* get_figi: the figi of the first listing, in the order of Methods, whose
\* first instrument of that ticker has a non-empty figi; None stands for the
\* ValueError.
RECURSIVE figi_from(_, _)
figi_from(m, ticker) ==
    IF m > Len(Methods) THEN None
    ELSE LET instr == NextByTicker(Methods[m], ticker, 1)
         IN  IF instr # None /\ instr[1].figi # "" THEN <<instr[1].figi>>
             ELSE figi_from(m + 1, ticker)

get_figi(ticker) == figi_from(1, ticker)

\* get_lot_size: the same search for the lot; None stands for the ValueError.
RECURSIVE lot_from(_, _)
lot_from(m, ticker) ==
    IF m > Len(Methods) THEN None
    ELSE LET instr == NextByTicker(Methods[m], ticker, 1)
         IN  IF instr # None /\ instr[1].lot # 0 THEN <<instr[1].lot>>
             ELSE lot_from(m + 1, ticker)

get_lot_size(ticker) == lot_from(1, ticker)

\* get_share_price, in hundredths, for the order book's last price: a bond's
\* quote is a percentage of its nominal.
get_share_price(figi, last_price) ==
    LET bond == NextByFigi(BondsListing, figi, 1)
        quote == FromCents(money_value_to_float(last_price))
    IN  IF bond # None
        THEN RoundCents(DivInt(Mul(quote, FromCents(money_value_to_float(bond[1].nominal))), 100))
        ELSE RoundCents(quote)

\* params.get("discount", DEFAULT_DISCOUNT)
discount_of(params) ==
    IF params.discount = None THEN DEFAULT_DISCOUNT ELSE params.discount[1]

\* The limit price of place_limit_order, in hundredths:
\* discount_price if discount_price else round(price * (1 - discount / 100), 2)
limit_price_of(price, params) ==
    IF params.discount_price # None /\ params.discount_price[1] # 0
    THEN params.discount_price[1]
    ELSE RoundCents(Mul(FromCents(price),
                        RN(OneMinus(FromRatio(discount_of(params), 100)))))

\* (changed: the quotient rounded up)
lots_rounded_up(money_amount, unit_price, lot_size) ==
    FloorDiv(FromCents(money_amount), RN(MulIntExact(FromCents(unit_price), lot_size))) + 1

\* int(money_amount // (unit_price * lot_size)); the divisor is not zero.
lots_of(money_amount, unit_price, lot_size) ==
    FloorDiv(FromCents(money_amount), RN(MulIntExact(FromCents(unit_price), lot_size)))

\* MoneyValue(units=int(limit_price), nano=int((limit_price % 1) * 1e9))
MoneyValue(limit_price) ==
    LET x == FromCents(limit_price)
    IN  <<x.i, Nano(Dy(0, x.f))>>

\* The truth value Python gives a float kept as <<hundredths>> or None.
Truthy(v) == v # None /\ v[1] # 0

\* The scan of buy_share over the holdings: the price of the first position of
\* that figi with an average price, else the real_price as it was.
RECURSIVE scan_positions(_, _, _, _)
scan_positions(positions, figi, k, real_price) ==
    IF k > Len(positions) THEN real_price
    ELSE IF positions[k].figi = figi /\ positions[k].average_position_price # None
         THEN <<money_value_to_float(positions[k].average_position_price)>>
         ELSE scan_positions(positions, figi, k + 1, real_price)

\* ------------------------------------------------------------- one run

VARIABLES
    mode,         \* args.mode
    pc,           \* where main() is
    session,      \* the Client of the with statement: "none", "open", "closed"
    acquired,     \* how many times the session was entered
    released,     \* how many times it was exited
    idx,          \* the index in SHARES of the entry of the for loop
    figi,         \* main's figi of the entry, None before get_figi
    price,        \* get_share_price's result, None before
    lot_size,     \* get_lot_size's result, None before
    limit_price,  \* the unit price the entry is sized with, None before
    lots,         \* the lots computed, None before
    order,        \* <<the post_order request of the entry>>, None without
    posts,        \* the post_order calls made for the entry
    real_price,   \* buy_share's real_price
    attempt,      \* the get_portfolio calls made for the entry
    found,        \* the first poll that returned a position of the figi with
                  \* an average price, 0 when none did
    exc,          \* <<the call that raised>> when the entry's except ran
    outcome,      \* the final log line of every entry processed, in order
    attempted,    \* the indexes of the entries begun, in order
    orderIds,     \* the order_id of every post_order call of the run
    uuidCalls,    \* the uuid.uuid4() calls of the run
    orders,       \* cancel_orders' list of open orders, None before the fetch
    cancelLog     \* every cancel_order call of the run: [id, ok]

vars == <<mode, pc, session, acquired, released, idx, figi, price, lot_size,
          limit_price, lots, order, posts, real_price, attempt, found, exc,
          outcome, attempted, orderIds, uuidCalls, orders, cancelLog>>

entryVars == <<figi, price, lot_size, limit_price, lots, order, posts,
               real_price, attempt, found, exc>>
loopVars == <<idx, outcome, attempted>>
sessionVars == <<session, acquired, released>>
cancelVars == <<orders, cancelLog>>

Init ==
    /\ mode \in {1, 2, 3}
    /\ pc = "start"
    /\ session = "none"
    /\ acquired = 0
    /\ released = 0
    /\ idx = 0
    /\ figi = None
    /\ price = None
    /\ lot_size = None
    /\ limit_price = None
    /\ lots = None
    /\ order = None
    /\ posts = 0
    /\ real_price = None
    /\ attempt = 0
    /\ found = 0
    /\ exc = None
    /\ outcome = <<>>
    /\ attempted = <<>>
    /\ orderIds = <<>>
    /\ uuidCalls = 0
    /\ orders = None
    /\ cancelLog = <<>>

\* with Client(TOKEN) as client:
EnterSession ==
    /\ pc = "start"
    /\ session' = "open"
    /\ acquired' = acquired + 1
    /\ pc' = "account"
    /\ UNCHANGED <<mode, released, loopVars, entryVars, orderIds, uuidCalls, cancelVars>>

\* (changed: the client used without the with statement, never exited)
FatalLeaks ==
    /\ pc' = "aborted"
    /\ UNCHANGED <<mode, sessionVars, loopVars, entryVars, orderIds, uuidCalls, cancelVars>>

\* An exception leaving the with block: the session is exited, the run ends.
Fatal ==
    /\ session' = "closed"
    /\ released' = released + 1
    /\ pc' = "aborted"
    /\ UNCHANGED <<mode, acquired, loopVars, entryVars, orderIds, uuidCalls, cancelVars>>

\* The end of the with block.
LeaveSession ==
    /\ session' = "closed"
    /\ released' = released + 1
    /\ pc' = "done"

\* get_account_id raising: the accounts call failing, or no account.
GetAccountIdFails ==
    /\ pc = "account"
    /\ Fatal

\* get_account_id returning accounts[0].id.
GetAccountId ==
    /\ pc = "account"
    /\ pc' = IF mode = 2 THEN "orders" ELSE "for"
    /\ UNCHANGED <<mode, sessionVars, loopVars, entryVars, orderIds, uuidCalls, cancelVars>>

\* for ticker, params in SHARES.items(): the next entry, or the end of the loop.
ForNext ==
    /\ pc = "for"
    /\ idx < Len(SHARES)
    /\ idx' = idx + 1
    /\ attempted' = Append(attempted, idx + 1)
    /\ figi' = None /\ price' = None /\ lot_size' = None /\ limit_price' = None
    /\ lots' = None /\ order' = None /\ posts' = 0 /\ real_price' = None
    /\ attempt' = 0 /\ found' = 0 /\ exc' = None
    /\ pc' = "figi"
    /\ UNCHANGED <<mode, sessionVars, outcome, orderIds, uuidCalls, cancelVars>>

ForEnd ==
    /\ pc = "for"
    /\ idx = Len(SHARES)
    /\ LeaveSession
    /\ UNCHANGED <<mode, acquired, loopVars, entryVars, orderIds, uuidCalls, cancelVars>>

\* The entry's last log line; the loop goes on.
Logged(line) ==
    /\ outcome' = Append(outcome, line)
    /\ pc' = "for"

\* (changed: the exception logged and raised again)
ExceptReraises(call) ==
    /\ exc' = <<call>>
    /\ outcome' = Append(outcome, "error")
    /\ pc' = "aborted"

\* except Exception as e: of the entry's try.
Except(call) ==
    /\ exc' = <<call>>
    /\ Logged("error")

\* figi = get_figi(client, ticker)
GetFigi ==
    /\ pc = "figi"
    /\ LET f == get_figi(SHARES[idx].ticker)
       IN  IF f = None
           THEN /\ Except("get_figi: ValueError")
                /\ UNCHANGED figi
           ELSE /\ figi' = f
                /\ pc' = IF mode = 1 THEN "price" ELSE "lot"
                /\ UNCHANGED <<exc, outcome>>
    /\ UNCHANGED <<mode, sessionVars, idx, attempted, price, lot_size, limit_price,
                   lots, order, posts, real_price, attempt, found, orderIds, uuidCalls,
                   cancelVars>>

\* A listing call of get_figi failing.
GetFigiFails ==
    /\ pc = "figi"
    /\ Except("get_figi")
    /\ UNCHANGED <<mode, sessionVars, idx, attempted, figi, price, lot_size,
                   limit_price, lots, order, posts, real_price, attempt, found, orderIds,
                   uuidCalls, cancelVars>>

\* price = get_share_price(client, figi): first in place_limit_order, second
\* in buy_share.
GetSharePrice ==
    /\ pc = "price"
    /\ \E last_price \in LastPrices :
           price' = <<get_share_price(figi[1], last_price)>>
    /\ pc' = IF mode = 1 THEN "lot" ELSE "size"
    /\ UNCHANGED <<mode, sessionVars, loopVars, figi, lot_size, limit_price, lots,
                   order, posts, real_price, attempt, found, exc, orderIds,
                   uuidCalls, cancelVars>>

GetSharePriceFails ==
    /\ pc = "price"
    /\ Except("get_share_price")
    /\ UNCHANGED <<mode, sessionVars, idx, attempted, figi, price, lot_size,
                   limit_price, lots, order, posts, real_price, attempt, found, orderIds,
                   uuidCalls, cancelVars>>

\* lot_size = get_lot_size(client, ticker): second in place_limit_order, first
\* in buy_share.
GetLotSize ==
    /\ pc = "lot"
    /\ LET l == get_lot_size(SHARES[idx].ticker)
       IN  IF l = None
           THEN /\ Except("get_lot_size: ValueError")
                /\ UNCHANGED lot_size
           ELSE /\ lot_size' = l
                /\ pc' = IF mode = 1 THEN "size" ELSE "price"
                /\ UNCHANGED <<exc, outcome>>
    /\ UNCHANGED <<mode, sessionVars, idx, attempted, figi, price, limit_price,
                   lots, order, posts, real_price, attempt, found, orderIds, uuidCalls,
                   cancelVars>>

GetLotSizeFails ==
    /\ pc = "lot"
    /\ Except("get_lot_size")
    /\ UNCHANGED <<mode, sessionVars, idx, attempted, figi, price, lot_size,
                   limit_price, lots, order, posts, real_price, attempt, found, orderIds,
                   uuidCalls, cancelVars>>

\* The unit price the entry is sized with: the limit price in mode 1, the
\* quote in mode 3.
unit_price_of(m, quote, params) ==
    IF m = 1 THEN limit_price_of(quote, params) ELSE quote

\* uuid.uuid4(): the token of the n-th call of the run, no two alike.
uuid4(n) == n

\* (changed: one order_id for the run)
order_id_reused(calls) == uuid4(1)

\* order_id = str(uuid.uuid4()), after `calls` earlier calls.
order_id_of(calls) == uuid4(calls + 1)

\* (changed: lots >= 0)
HasLotsOrNone(n) == n >= 0

\* if lots > 0:
HasLots(n) == n > 0

\* The post_order request of the entry.
Request(kind, unit, n, id) ==
    [kind |-> kind, figi |-> figi[1], quantity |-> n, lot_size |-> lot_size[1],
     unit |-> unit, amount |-> SHARES[idx].amount,
     price |-> IF kind = "limit" THEN MoneyValue(unit) ELSE None,
     order_id |-> id, executed |-> None]

\* lots = int(money_amount // (unit_price * lot_size)) dividing by zero.
SizeFails ==
    /\ pc = "size"
    /\ LET unit == unit_price_of(mode, price[1], SHARES[idx])
       IN  /\ unit * lot_size[1] = 0
           /\ limit_price' = <<unit>>
    /\ Except("ZeroDivisionError")
    /\ UNCHANGED <<mode, sessionVars, idx, attempted, figi, price, lot_size, lots,
                   order, posts, real_price, attempt, found, orderIds, uuidCalls,
                   cancelVars>>

\* lots == 0: the else branch of place_limit_order and of buy_share.
Insufficient ==
    /\ pc = "size"
    /\ LET unit == unit_price_of(mode, price[1], SHARES[idx])
       IN  /\ unit * lot_size[1] # 0
           /\ LET n == lots_of(SHARES[idx].amount, unit, lot_size[1])
              IN  /\ ~HasLots(n)
                  /\ limit_price' = <<unit>>
                  /\ lots' = <<n>>
    /\ Logged("insufficient")
    /\ UNCHANGED <<mode, sessionVars, idx, attempted, figi, price, lot_size, order,
                   posts, real_price, attempt, found, exc, orderIds, uuidCalls,
                   cancelVars>>

\* lots > 0: post_order is called with a new order_id, and either raises, or
\* returns (in mode 3 with or without an executed price).
Submit ==
    /\ pc = "size"
    /\ LET unit == unit_price_of(mode, price[1], SHARES[idx])
       IN  /\ unit * lot_size[1] # 0
           /\ LET n == lots_of(SHARES[idx].amount, unit, lot_size[1])
                  id == order_id_of(uuidCalls)
                  req == Request(IF mode = 1 THEN "limit" ELSE "market", unit, n, id)
              IN  /\ HasLots(n)
                  /\ limit_price' = <<unit>>
                  /\ lots' = <<n>>
                  /\ uuidCalls' = uuidCalls + 1
                  /\ posts' = posts + 1
                  /\ orderIds' = Append(orderIds, id)
                  /\ \/ /\ order' = <<req>>
                        /\ Except("post_order")
                        /\ UNCHANGED real_price
                     \/ /\ mode = 1
                        /\ order' = <<req>>
                        /\ Logged("placed")
                        /\ UNCHANGED <<real_price, exc>>
                     \/ /\ mode = 3
                        /\ \E executed \in ExecutedPrices :
                              /\ order' = <<[req EXCEPT !.executed = executed]>>
                              /\ IF executed # None
                                 THEN /\ real_price' = <<money_value_to_float(executed)>>
                                      /\ Logged("priced")
                                 ELSE /\ real_price' = None
                                      /\ pc' = "poll"
                                      /\ UNCHANGED outcome
                        /\ UNCHANGED exc
    /\ UNCHANGED <<mode, sessionVars, idx, attempted, figi, price, lot_size,
                   attempt, found, cancelVars>>

\* (changed: one turn short)
LastTurnEarly(n) == n >= PollAttempts - 1

\* range(5) is exhausted after n turns.
LastTurn(n) == n = PollAttempts

\* One turn of for attempt in range(5): the holdings are fetched and scanned;
\* the loop ends on a real_price that is true, or after the last turn.
Poll ==
    /\ pc = "poll"
    /\ attempt < PollAttempts
    /\ \E positions \in Portfolios :
          LET rp == scan_positions(positions, figi[1], 1, real_price)
              hit == \E k \in 1..Len(positions) :
                        /\ positions[k].figi = figi[1]
                        /\ positions[k].average_position_price # None
          IN  /\ real_price' = rp
              /\ attempt' = attempt + 1
              /\ found' = IF found = 0 /\ hit THEN attempt + 1 ELSE found
              /\ IF Truthy(rp) THEN Logged("confirmed")
                 ELSE IF LastTurn(attempt + 1) THEN Logged("unknown")
                 ELSE UNCHANGED <<pc, outcome>>
    /\ UNCHANGED <<mode, sessionVars, idx, attempted, figi, price, lot_size,
                   limit_price, lots, order, posts, exc, orderIds, uuidCalls,
                   cancelVars>>

\* get_portfolio raising in the loop.
PollFails ==
    /\ pc = "poll"
    /\ attempt < PollAttempts
    /\ attempt' = attempt + 1
    /\ Except("get_portfolio")
    /\ UNCHANGED <<mode, sessionVars, idx, attempted, figi, price, lot_size,
                   limit_price, lots, order, posts, real_price, found, orderIds,
                   uuidCalls, cancelVars>>

\* orders = client.orders.get_orders(account_id=account_id).orders
GetOrders ==
    /\ pc = "orders"
    /\ \E n \in 0..MaxOpenOrders : orders' = <<[k \in 1..n |-> k]>>
    /\ pc' = "cancel"
    /\ UNCHANGED <<mode, sessionVars, loopVars, entryVars, orderIds, uuidCalls, cancelLog>>

GetOrdersFails ==
    /\ pc = "orders"
    /\ Fatal

\* (changed: cancel_order called outside a try, its exception ends the run)
CancelOrderUnguarded ==
    /\ pc = "cancel"
    /\ Len(cancelLog) < Len(orders[1])
    /\ \E ok \in BOOLEAN :
          /\ cancelLog' = Append(cancelLog, [id |-> orders[1][Len(cancelLog) + 1], ok |-> ok])
          /\ IF ok THEN UNCHANGED <<pc, sessionVars>>
             ELSE /\ session' = "closed"
                  /\ released' = released + 1
                  /\ pc' = "aborted"
                  /\ UNCHANGED acquired
    /\ UNCHANGED <<mode, loopVars, entryVars, orderIds, uuidCalls, orders>>

\* One turn of for order in orders: the cancel_order call returns or raises.
CancelOrder ==
    /\ pc = "cancel"
    /\ Len(cancelLog) < Len(orders[1])
    /\ \E ok \in BOOLEAN :
          cancelLog' = Append(cancelLog, [id |-> orders[1][Len(cancelLog) + 1], ok |-> ok])
    /\ UNCHANGED <<mode, pc, sessionVars, loopVars, entryVars, orderIds, uuidCalls, orders>>

CancelEnd ==
    /\ pc = "cancel"
    /\ Len(cancelLog) = Len(orders[1])
    /\ LeaveSession
    /\ UNCHANGED <<mode, acquired, loopVars, entryVars, orderIds, uuidCalls, cancelVars>>

Next ==
    \/ EnterSession
    \/ GetAccountId
    \/ GetAccountIdFails
    \/ ForNext
    \/ ForEnd
    \/ GetFigi
    \/ GetFigiFails
    \/ GetSharePrice
    \/ GetSharePriceFails
    \/ GetLotSize
    \/ GetLotSizeFails
    \/ SizeFails
    \/ Insufficient
    \/ Submit
    \/ Poll
    \/ PollFails
    \/ GetOrders
    \/ GetOrdersFails
    \/ CancelOrder
    \/ CancelEnd

Spec == Init /\ [][Next]_vars

\* ------------------------------------------------------------ the claims

Last(seq) == seq[Len(seq)]

\* The entry of the for loop.
Entry == SHARES[idx]

\* main is past the entry: at the loop head, or past the loop after the last.
EntryOver == pc \in {"for", "done"}

\* post_order returned for the entry's order.
Returned == order # None /\ exc # <<"post_order">>

\* The MoneyValue of exactly c hundredths.
Money(c) == <<c \div 100, (c % 100) * 10000000>>

\* C1: in market-buy mode no holdings poll follows an order response that
\* carries an executed price; without one there are at most 5 polls, and none
\* after the first poll that returned a position of the ordered figi with an
\* average price.
C1_PollingStopsWhenFound ==
    mode = 3 =>
        /\ (order # None /\ order[1].executed # None) => attempt = 0
        /\ attempt <= PollAttempts
        /\ found # 0 => attempt = found

\* C2: in modes 1 and 3 no failure of an entry ends the run: an except leaves
\* main at the loop head, the run never aborts once the loop has begun, and at
\* the end every entry was begun once, in table order, and has its log line.
C2_EveryEntryAttempted ==
    mode # 2 =>
        /\ exc # None => EntryOver /\ Last(outcome) = "error"
        /\ pc = "aborted" => attempted = <<>>
        /\ pc = "done" => /\ attempted = [k \in 1..Len(SHARES) |-> k]
                          /\ Len(outcome) = Len(SHARES)

C2_Witness ==
    /\ mode = 3
    /\ pc = "done"
    /\ \E k \in 1..(Len(outcome) - 1) : outcome[k] = "error" /\ outcome[k + 1] # "error"

\* C3: in mode 2, once the open orders are fetched, the cancellations made are
\* those of the fetched list, in order, one per order, whether they fail or
\* not; the run does not abort, and at the end none is missing.
C3_EveryOrderCancelledOnce ==
    (mode = 2 /\ orders # None) =>
        /\ pc \in {"cancel", "done"}
        /\ Len(cancelLog) <= Len(orders[1])
        /\ \A k \in 1..Len(cancelLog) : cancelLog[k].id = orders[1][k]
        /\ pc = "done" => Len(cancelLog) = Len(orders[1])

C3_Witness ==
    /\ mode = 2
    /\ pc = "done"
    /\ Len(cancelLog) >= 2
    /\ ~cancelLog[1].ok
    /\ cancelLog[Len(cancelLog)].ok

\* C4: every order submitted costs, at the unit price it was sized with, no
\* more than the entry's amount: quantity * lot_size * unit_price <= amount
\* (in hundredths).
C4_OrderWithinBudget ==
    order # None =>
        order[1].quantity * order[1].lot_size * order[1].unit <= order[1].amount

C4_Witness ==
    /\ order # None
    /\ order[1].kind = "limit"
    /\ order[1].quantity > 1
    /\ (order[1].quantity + 1) * order[1].lot_size * order[1].unit > order[1].amount

\* C5: the figi and the lot of an entry are those of the first instrument of
\* its ticker in the first of the listings shares, etfs, bonds that holds the
\* ticker; with the ticker in no listing, get_figi ends the entry in the
\* except branch and no order is submitted.
Holds(listing, ticker) == \E k \in 1..Len(listing) : listing[k].ticker = ticker

FirstOf(listing, ticker) ==
    listing[CHOOSE k \in 1..Len(listing) :
                /\ listing[k].ticker = ticker
                /\ \A j \in 1..(k - 1) : listing[j].ticker # ticker]

Resolved(ticker) ==
    IF Holds(SharesListing, ticker) THEN <<FirstOf(SharesListing, ticker)>>
    ELSE IF Holds(EtfsListing, ticker) THEN <<FirstOf(EtfsListing, ticker)>>
    ELSE IF Holds(BondsListing, ticker) THEN <<FirstOf(BondsListing, ticker)>>
    ELSE None

C5_ResolutionPriority ==
    idx > 0 =>
        LET r == Resolved(Entry.ticker)
        IN  /\ figi # None => r # None /\ figi[1] = r[1].figi
            /\ lot_size # None => r # None /\ lot_size[1] = r[1].lot
            /\ (r = None /\ pc # "figi") =>
                   /\ EntryOver
                   /\ exc \in {<<"get_figi: ValueError">>, <<"get_figi">>}
                   /\ Last(outcome) = "error"
                   /\ order = None /\ posts = 0

C5_Witness ==
    /\ idx > 0
    /\ Entry.ticker = "AAA"
    /\ figi = <<"S_AAA">>
    /\ lot_size = <<10>>
    /\ order # None

\* C6: every order submitted has at least one lot; an entry whose amount is
\* below unit price * lot size gets 0 lots, no order, the 'insufficient funds'
\* line and no except, and main is back at the loop head.
C6_ZeroLotsNoOrder ==
    /\ order # None => order[1].quantity >= 1
    /\ (limit_price # None /\ Entry.amount < limit_price[1] * lot_size[1]) =>
           /\ lots = <<0>>
           /\ order = None /\ posts = 0
           /\ exc = None
           /\ Last(outcome) = "insufficient"
           /\ EntryOver

C6_Witness ==
    /\ pc = "figi"
    /\ idx > 1
    /\ outcome[idx - 1] = "insufficient"

\* C7: in mode 1 the price sent with every limit order is the entry's fixed
\* price when it has one, and else the quote less the entry's discount
\* (default 3), rounded to hundredths.
C7_LimitPriceSent ==
    (mode = 1 /\ order # None) =>
        IF Entry.discount_price # None
        THEN order[1].price = Money(Entry.discount_price[1])
        ELSE LET d == IF Entry.discount = None THEN 3 ELSE Entry.discount[1]
                 exact == price[1] * (100 - d)
             IN  \E c \in {exact \div 100, (exact \div 100) + 1} :
                    /\ 100 * c - exact <= 50
                    /\ exact - 100 * c <= 50
                    /\ order[1].price = Money(c)

\* C8: no two post_order calls of a run carry the same order_id, and each
\* order_id generated is that of one call.
C8_UniqueOrderIds ==
    /\ \A a, b \in 1..Len(orderIds) : a # b => orderIds[a] # orderIds[b]
    /\ order # None => order[1].order_id = Last(orderIds)
    /\ Len(orderIds) = uuidCalls

C8_Witness ==
    /\ Len(orderIds) >= 3
    /\ mode = 3
    /\ order # None

\* C9, as claimed: an entry whose market order was accepted without an
\* executed price ends with the price found or with all 5 polls made, in the
\* 'price reported' or the 'price unknown' line, never in the except branch.
C9_PollingNeverCutShort ==
    (mode = 3 /\ Returned /\ order[1].executed = None /\ EntryOver) =>
        /\ Last(outcome) \in {"confirmed", "unknown"}
        /\ Truthy(real_price) \/ attempt = PollAttempts
        /\ posts = 1 /\ cancelLog = <<>>

\* C9, amended: such an entry ends with a price found that is not zero, with
\* all 5 polls made, or with a holdings call that raised, which ends it in the
\* except branch; in each case post_order was called once for the entry and
\* nothing was cancelled.
C9_PollingEndsThreeWays ==
    (mode = 3 /\ Returned /\ order[1].executed = None) =>
        /\ posts = 1 /\ cancelLog = <<>>
        /\ pc = "poll" \/ EntryOver
        /\ pc = "poll" => ~Truthy(real_price) /\ attempt < PollAttempts /\ exc = None
        /\ EntryOver =>
               \/ Last(outcome) = "confirmed" /\ Truthy(real_price) /\ exc = None
               \/ /\ Last(outcome) = "unknown" /\ exc = None
                  /\ ~Truthy(real_price) /\ attempt = PollAttempts
               \/ Last(outcome) = "error" /\ exc = <<"get_portfolio">>

C9_Witness ==
    /\ mode = 3
    /\ pc = "for"
    /\ Returned
    /\ order[1].executed = None
    /\ exc = <<"get_portfolio">>
    /\ attempt = 3

\* C10: the session is entered once and is exited on every way out of the
\* run: the run has ended exactly when the session is closed, and a run that
\* aborted (no account, the accounts or the open orders call failing) has
\* submitted and cancelled nothing.
C10_SessionReleased ==
    /\ acquired <= 1
    /\ released <= acquired
    /\ session = "none" <=> pc = "start"
    /\ session = "closed" <=> pc \in {"done", "aborted"}
    /\ session = "closed" => acquired = 1 /\ released = 1
    /\ pc = "aborted" => orderIds = <<>> /\ cancelLog = <<>> /\ attempted = <<>>

C10_Witness ==
    /\ pc = "aborted"
    /\ mode = 2
    /\ orders = None
    /\ session = "closed"
    /\ released = 1
====
